---- MODULE Spec2Model ----
(***************************************************************************)
(* Model of clibind: FlagsFromStruct (flags.go), Bind / bindStruct /       *)
(* setFieldValue / setSliceField and WithBinding / CommandWithBinding      *)
(* (bind.go).                                                              *)
(*                                                                         *)
(* Go strings are sequences of one-character strings, so that the tag      *)
(* parsing, prefixing, lower-casing and value parsing are computed the way *)
(* the code computes them.  Go types are records [k |-> ...]; struct types *)
(* carry the sequence of their fields with the tags of each field.         *)
(***************************************************************************)
EXTENDS Integers, Sequences, FiniteSets, TLC

\* ------------------------------------------------------------------------
\* Strings
\* ------------------------------------------------------------------------

UpperChars == <<"A","B","C","D","E","F","G","H","I","J","K","L","M",
                "N","O","P","Q","R","S","T","U","V","W","X","Y","Z">>

LowerChars == <<"a","b","c","d","e","f","g","h","i","j","k","l","m",
                "n","o","p","q","r","s","t","u","v","w","x","y","z">>

Digits == <<"0","1","2","3","4","5","6","7","8","9">>

IndexIn(c, seq) ==
  IF \E i \in 1..Len(seq) : seq[i] = c
  THEN CHOOSE i \in 1..Len(seq) : seq[i] = c
  ELSE 0

\* strings.ToLower, character by character
ToLower(s) ==
  [i \in 1..Len(s) |->
     IF IndexIn(s[i], UpperChars) # 0 THEN LowerChars[IndexIn(s[i], UpperChars)] ELSE s[i]]

RECURSIVE TrimLeft(_)
TrimLeft(s) == IF s # <<>> /\ Head(s) = " " THEN TrimLeft(Tail(s)) ELSE s

RECURSIVE TrimRight(_)
TrimRight(s) ==
  IF s # <<>> /\ s[Len(s)] = " " THEN TrimRight(SubSeq(s, 1, Len(s) - 1)) ELSE s

\* strings.TrimSpace (the only white space of the model is the blank)
TrimSpace(s) == TrimRight(TrimLeft(s))

\* strings.Split(s, ","): the pieces between the commas, cur is the piece
\* being read
RECURSIVE SplitComma(_, _)
SplitComma(s, cur) ==
  IF s = <<>> THEN <<cur>>
  ELSE IF Head(s) = "," THEN <<cur>> \o SplitComma(Tail(s), <<>>)
  ELSE SplitComma(Tail(s), Append(cur, Head(s)))

\* flags.go splitCSV: nil for the empty string, else the trimmed pieces
splitCSV(s) ==
  IF s = <<>> THEN <<>>
  ELSE LET parts == SplitComma(s, <<>>)
       IN  [i \in 1..Len(parts) |-> TrimSpace(parts[i])]

OmitEmptyToken == <<"o","m","i","t","e","m","p","t","y">>

RECURSIVE AliasesOf(_)
AliasesOf(parts) ==
  IF parts = <<>> THEN <<>>
  ELSE IF TrimSpace(Head(parts)) = OmitEmptyToken THEN AliasesOf(Tail(parts))
  ELSE <<TrimSpace(Head(parts))>> \o AliasesOf(Tail(parts))

\* flags.go parseNamesWithOptions
parseNamesWithOptions(tag) ==
  LET t     == TrimSpace(tag)
      parts == splitCSV(t)
  IN  IF t = <<>> THEN [name |-> <<>>, aliases |-> <<>>, omitEmpty |-> FALSE]
      ELSE IF Len(parts) = 0 \/ parts[1] = <<>>
      THEN [name |-> <<>>, aliases |-> <<>>, omitEmpty |-> FALSE]
      ELSE [name      |-> parts[1],
            aliases   |-> AliasesOf(Tail(parts)),
            omitEmpty |-> \E i \in 2..Len(parts) : TrimSpace(parts[i]) = OmitEmptyToken]

\* ------------------------------------------------------------------------
\* Value parsers of the standard library and of gofrs/uuid, on the inputs
\* of the model.  A result is [ok |-> BOOLEAN, v |-> value].
\* ------------------------------------------------------------------------

IsDigit(c) == IndexIn(c, Digits) # 0

AllDigits(s) == s # <<>> /\ \A i \in 1..Len(s) : IsDigit(s[i])

RECURSIVE DecimalValue(_, _)
DecimalValue(s, acc) ==
  IF s = <<>> THEN acc
  ELSE DecimalValue(Tail(s), acc * 10 + (IndexIn(Head(s), Digits) - 1))

\* strconv.ParseInt(s, 10, 64): optional sign, then decimal digits
ParseInt(s) ==
  LET body == IF s # <<>> /\ Head(s) \in {"+", "-"} THEN Tail(s) ELSE s
  IN  IF ~AllDigits(body) THEN [ok |-> FALSE, v |-> 0]
      ELSE IF Head(s) = "-" THEN [ok |-> TRUE, v |-> 0 - DecimalValue(body, 0)]
      ELSE [ok |-> TRUE, v |-> DecimalValue(body, 0)]

\* strconv.ParseUint(s, 10, 64): decimal digits, no sign
ParseUint(s) ==
  IF AllDigits(s) THEN [ok |-> TRUE, v |-> DecimalValue(s, 0)]
  ELSE [ok |-> FALSE, v |-> 0]

\* strconv.ParseFloat(s, 64) on integral inputs (the floats of the model are
\* integral)
ParseFloat(s) == ParseInt(s)

TrueWords ==
  { <<"1">>, <<"t">>, <<"T">>, <<"t","r","u","e">>, <<"T","R","U","E">>,
    <<"T","r","u","e">> }

FalseWords ==
  { <<"0">>, <<"f">>, <<"F">>, <<"f","a","l","s","e">>, <<"F","A","L","S","E">>,
    <<"F","a","l","s","e">> }

\* strconv.ParseBool
ParseBool(s) ==
  IF s \in TrueWords THEN [ok |-> TRUE, v |-> TRUE]
  ELSE IF s \in FalseWords THEN [ok |-> TRUE, v |-> FALSE]
  ELSE [ok |-> FALSE, v |-> FALSE]

RECURSIVE DigitPrefixLen(_)
DigitPrefixLen(s) ==
  IF s # <<>> /\ IsDigit(Head(s)) THEN 1 + DigitPrefixLen(Tail(s)) ELSE 0

\* milliseconds per unit; durations are counted in milliseconds
UnitMillis(u) ==
  IF u = <<"m","s">> THEN 1
  ELSE IF u = <<"s">> THEN 1000
  ELSE IF u = <<"m">> THEN 60000
  ELSE IF u = <<"h">> THEN 3600000
  ELSE 0

\* time.ParseDuration on "<digits><unit>" and "0"; anything else is an error
ParseDuration(s) ==
  LET n    == DigitPrefixLen(s)
      num  == SubSeq(s, 1, n)
      unit == SubSeq(s, n + 1, Len(s))
  IN  IF s = <<"0">> THEN [ok |-> TRUE, v |-> 0]
      ELSE IF n = 0 \/ UnitMillis(unit) = 0 THEN [ok |-> FALSE, v |-> 0]
      ELSE [ok |-> TRUE, v |-> DecimalValue(num, 0) * UnitMillis(unit)]

RFC3339 == <<"2","0","0","6","-","0","1","-","0","2","T","1","5",":","0","4",":",
             "0","5","Z","0","7",":","0","0">>

DateLayout == <<"2","0","0","6","-","0","1","-","0","2">>

\* Go's zero time.Time: January 1, year 1, 00:00:00 UTC
ZeroTime == [y |-> 1, mo |-> 1, d |-> 1, h |-> 0, mi |-> 0, s |-> 0]

Num(s, a, b) == DecimalValue(SubSeq(s, a, b), 0)

DatePart(s) ==
  /\ Len(s) >= 10
  /\ \A i \in {1, 2, 3, 4, 6, 7, 9, 10} : IsDigit(s[i])
  /\ s[5] = "-" /\ s[8] = "-"
  /\ Num(s, 6, 7) \in 1..12
  /\ Num(s, 9, 10) \in 1..31

ClockPart(s) ==
  /\ Len(s) = 20
  /\ s[11] = "T" /\ s[14] = ":" /\ s[17] = ":" /\ s[20] = "Z"
  /\ \A i \in {12, 13, 15, 16, 18, 19} : IsDigit(s[i])
  /\ Num(s, 12, 13) \in 0..23
  /\ Num(s, 15, 16) \in 0..59
  /\ Num(s, 18, 19) \in 0..59

\* time.Parse(layout, s) for the two layouts of the model (RFC3339 in UTC and
\* the date layout "2006-01-02")
ParseTime(layout, s) ==
  IF layout = DateLayout /\ Len(s) = 10 /\ DatePart(s)
  THEN [ok |-> TRUE,
        v  |-> [y |-> Num(s, 1, 4), mo |-> Num(s, 6, 7), d |-> Num(s, 9, 10),
                h |-> 0, mi |-> 0, s |-> 0]]
  ELSE IF layout = RFC3339 /\ DatePart(s) /\ ClockPart(s)
  THEN [ok |-> TRUE,
        v  |-> [y |-> Num(s, 1, 4), mo |-> Num(s, 6, 7), d |-> Num(s, 9, 10),
                h |-> Num(s, 12, 13), mi |-> Num(s, 15, 16), s |-> Num(s, 18, 19)]]
  ELSE [ok |-> FALSE, v |-> ZeroTime]

HexLower == <<"0","1","2","3","4","5","6","7","8","9","a","b","c","d","e","f">>

HexUpper == <<"0","1","2","3","4","5","6","7","8","9","A","B","C","D","E","F">>

HexValue(c) ==
  IF IndexIn(c, HexLower) # 0 THEN IndexIn(c, HexLower)
  ELSE IndexIn(c, HexUpper)

UUIDDashes == {9, 14, 19, 24}

UUIDHexPositions == (1..36) \ UUIDDashes

RECURSIVE HexDigitsOf(_)
HexDigitsOf(s) ==
  IF s = <<>> THEN <<>>
  ELSE IF Head(s) = "-" THEN HexDigitsOf(Tail(s))
  ELSE <<HexLower[HexValue(Head(s))]>> \o HexDigitsOf(Tail(s))

\* uuid.Nil: sixteen zero bytes, written as thirty-two hex digits
NilUUID == [i \in 1..32 |-> "0"]

\* uuid.FromString on the canonical 36-character form; the value is the
\* sixteen bytes, written as thirty-two lower-case hex digits
FromString(s) ==
  IF /\ Len(s) = 36
     /\ \A i \in UUIDDashes : s[i] = "-"
     /\ \A i \in UUIDHexPositions : HexValue(s[i]) # 0
  THEN [ok |-> TRUE, v |-> HexDigitsOf(s)]
  ELSE [ok |-> FALSE, v |-> NilUUID]

\* ------------------------------------------------------------------------
\* Go types and reflection
\* ------------------------------------------------------------------------

\* A type is [k |-> name] for a leaf type, [k |-> "ptr", elem |-> T],
\* [k |-> "slice", elem |-> T] or [k |-> "struct", fields |-> <<field, ...>>].
\* A field is [Name, Exported, Anonymous, Type, cli, cliPrefix, cliDefault,
\* cliTimeLayout]: the reflect.StructField with its tags.

T(k) == [k |-> k]

PtrTo(t) == [k |-> "ptr", elem |-> t]

SliceOf(t) == [k |-> "slice", elem |-> t]

StructOf(fs) == [k |-> "struct", fields |-> fs]

IntTypes == {"int", "int8", "int16", "int64"}

UintTypes == {"uint", "uint8", "uint16", "uint64"}

\* reflect.Type.Kind: time.Duration is an int64, time.Time a struct,
\* uuid.UUID a byte array
Kind(t) ==
  IF t.k = "duration" THEN "int64"
  ELSE IF t.k = "time" THEN "struct"
  ELSE IF t.k = "uuid" THEN "array"
  ELSE t.k

RECURSIVE unreferenceType(_)
unreferenceType(t) == IF Kind(t) = "ptr" THEN unreferenceType(t.elem) ELSE t

isStructLike(t) ==
  LET u == unreferenceType(t) IN Kind(u) = "struct" /\ u.k # "time"

isAnyInt(k) == k \in IntTypes

isAnyUint(k) == k \in UintTypes

isFloat(k) == k \in {"float32", "float64"}

\* ------------------------------------------------------------------------
\* FlagsFromStruct
\* ------------------------------------------------------------------------

\* the aliases with the inherited prefix on those longer than one character
PrefixAliases(prefix, aliases) ==
  [i \in 1..Len(aliases) |->
     IF Len(aliases[i]) > 1 THEN prefix \o aliases[i] ELSE aliases[i]]

\* the flag emitted for a leaf field, as a sequence of zero or one flag.  A
\* flag is [Name, Aliases, kind, Value, Required, Origin]; Origin is the
\* field the flag was emitted for.
LeafFlag(sf, name, aliases, omitEmpty) ==
  LET def      == sf.cliDefault
      ft       == sf.Type
      kind     == Kind(unreferenceType(ft))
      required == ~omitEmpty /\ def = <<>>
      F(k, v)  == << [Name |-> name, Aliases |-> aliases, kind |-> k, Value |-> v,
                      Required |-> required, Origin |-> sf] >>
  IN  IF ft.k = "duration" THEN F("String", def)
      ELSE IF kind = "bool" THEN F("Bool", ParseBool(def).v)
      ELSE IF isAnyInt(kind) THEN F("Int64", ParseInt(def).v)
      ELSE IF isAnyUint(kind) THEN F("Uint64", ParseUint(def).v)
      ELSE IF isFloat(kind) THEN F("Float64", ParseFloat(def).v)
      ELSE IF ft.k = "time" THEN F("String", def)
      ELSE IF ft.k = "uuid" THEN F("String", def)
      ELSE IF kind = "string" THEN F("String", def)
      ELSE IF kind = "slice" THEN F("StringSlice", splitCSV(def))
      ELSE <<>>

RECURSIVE genFlagsForStruct(_, _)
RECURSIVE genFlagsFrom(_, _, _)

\* the loop of genFlagsForStruct from field i on: the flags appended
genFlagsFrom(rt, inheritedPrefix, i) ==
  IF i > Len(rt.fields) THEN <<>>
  ELSE
    LET sf   == rt.fields[i]
        rest == genFlagsFrom(rt, inheritedPrefix, i + 1)
        p    == parseNamesWithOptions(sf.cli)
    IN  IF ~sf.Exported THEN rest
        ELSE IF isStructLike(sf.Type) /\ sf.cliPrefix # <<>>
        THEN genFlagsForStruct(unreferenceType(sf.Type), inheritedPrefix \o sf.cliPrefix)
               \o rest
        ELSE IF p.name = <<>> /\ sf.Anonymous /\ isStructLike(sf.Type)
        THEN genFlagsForStruct(unreferenceType(sf.Type), inheritedPrefix) \o rest
        ELSE
          LET name == inheritedPrefix \o (IF p.name = <<>> THEN ToLower(sf.Name) ELSE p.name)
          IN  LeafFlag(sf, name, PrefixAliases(inheritedPrefix, p.aliases), p.omitEmpty)
                \o rest

genFlagsForStruct(rt, inheritedPrefix) == genFlagsFrom(rt, inheritedPrefix, 1)

\* FlagsFromStruct(v) for v of type t (a struct or a pointer to one)
FlagsFromStruct(t) ==
  LET rt == unreferenceType(t)
  IN  IF Kind(rt) # "struct" THEN <<>> ELSE genFlagsForStruct(rt, <<>>)

\* ------------------------------------------------------------------------
\* The flag source: a cli.Command after the library parsed the arguments.
\* It is the sequence of the command's flags, each with its current value
\* (the default until the flag is given) and whether it was given.
\* ------------------------------------------------------------------------

HasName(f, name) == f.Name = name \/ \E i \in 1..Len(f.Aliases) : f.Aliases[i] = name

\* the first flag that answers to the name, 0 when there is none
lookupFlag(ctx, name) ==
  IF \E i \in 1..Len(ctx) : HasName(ctx[i], name)
  THEN CHOOSE i \in 1..Len(ctx) :
         HasName(ctx[i], name) /\ \A j \in 1..(i - 1) : ~HasName(ctx[j], name)
  ELSE 0

IsSet(ctx, name) == lookupFlag(ctx, name) # 0 /\ ctx[lookupFlag(ctx, name)].isSet

\* the typed accessors: the value when the flag exists and has that value
\* kind, the zero value of the kind otherwise
Typed(ctx, name, kind, zero) ==
  LET i == lookupFlag(ctx, name)
  IN  IF i # 0 /\ ctx[i].kind = kind THEN ctx[i].Value ELSE zero

CtxString(ctx, name) == Typed(ctx, name, "String", <<>>)

CtxBool(ctx, name) == Typed(ctx, name, "Bool", FALSE)

CtxInt64(ctx, name) == Typed(ctx, name, "Int64", 0)

CtxUint64(ctx, name) == Typed(ctx, name, "Uint64", 0)

CtxFloat64(ctx, name) == Typed(ctx, name, "Float64", 0)

CtxStringSlice(ctx, name) == Typed(ctx, name, "StringSlice", <<>>)

\* ------------------------------------------------------------------------
\* Values
\* ------------------------------------------------------------------------

NilSlice == [isnil |-> TRUE, elems |-> <<>>]

NilPtr == <<>>

RECURSIVE Zero(_)
Zero(t) ==
  IF t.k = "struct" THEN [i \in 1..Len(t.fields) |-> Zero(t.fields[i].Type)]
  ELSE IF t.k = "ptr" THEN NilPtr
  ELSE IF t.k = "slice" THEN NilSlice
  ELSE IF t.k = "bool" THEN FALSE
  ELSE IF t.k = "string" THEN <<>>
  ELSE IF t.k = "time" THEN ZeroTime
  ELSE IF t.k = "uuid" THEN NilUUID
  ELSE 0

TwoTo(n) == IF n = 8 THEN 256 ELSE 65536

\* the width in bits of an integer kind; 64 stands for every width the
\* values of the model cannot overflow
Bits(k) ==
  IF k \in {"int8", "uint8"} THEN 8
  ELSE IF k \in {"int16", "uint16"} THEN 16
  ELSE 64

\* castAndSetInt: reflect's SetInt stores int64 v converted to the kind
castAndSetInt(k, v) ==
  IF Bits(k) = 64 THEN v
  ELSE LET m == TwoTo(Bits(k))
           h == m \div 2
       IN  ((v + h) % m) - h

\* castAndSetUint: reflect's SetUint stores uint64 v converted to the kind
castAndSetUint(k, v) ==
  IF Bits(k) = 64 THEN v ELSE v % TwoTo(Bits(k))

\* ------------------------------------------------------------------------
\* Bind
\* ------------------------------------------------------------------------

NoErr == <<>>

Err(msg, name) == << [msg |-> msg, name |-> name] >>

\* a wrapping that leaves the name of the field out of the message
WrapWithoutName(msg, name, err) == Err(msg, <<>>) \o err

\* fmt.Errorf("...: %w", err)
Wrap(msg, name, err) == Err(msg, name) \o err

\* the cliTimeLayout tag, RFC3339 when it is empty
timeLayoutOf(sf) == IF sf.cliTimeLayout = <<>> THEN RFC3339 ELSE sf.cliTimeLayout

RECURSIVE sliceLoop(_, _, _, _)
\* the loop of setSliceField over raw from element i on, out the slice built
\* so far: [err, out]
sliceLoop(sf, raw, i, out) ==
  IF i > Len(raw) THEN [err |-> NoErr, out |-> out]
  ELSE
    LET s    == raw[i]
        t    == sf.Type.elem
        k    == Kind(t)
        Push(val) == sliceLoop(sf, raw, i + 1, Append(out, val))
        Skip      == sliceLoop(sf, raw, i + 1, out)
        Fail(msg) == [err |-> Err(msg, <<>>), out |-> out]
    IN  IF t.k = "duration"
        THEN IF s = <<>> THEN Skip
             ELSE IF ~ParseDuration(s).ok THEN Fail("parse duration")
             ELSE Push(ParseDuration(s).v)
        ELSE IF k = "bool" THEN Push(ParseBool(s).v)
        ELSE IF isAnyInt(k)
        THEN IF ~ParseInt(s).ok THEN Fail("parse int")
             ELSE Push(castAndSetInt(k, ParseInt(s).v))
        ELSE IF isAnyUint(k)
        THEN IF ~ParseUint(s).ok THEN Fail("parse uint")
             ELSE Push(castAndSetUint(k, ParseUint(s).v))
        ELSE IF isFloat(k)
        THEN IF ~ParseFloat(s).ok THEN Fail("parse float")
             ELSE Push(ParseFloat(s).v)
        ELSE IF t.k = "time"
        THEN IF s = <<>> THEN Skip
             ELSE IF ~ParseTime(timeLayoutOf(sf), s).ok THEN Fail("time parse")
             ELSE Push(ParseTime(timeLayoutOf(sf), s).v)
        ELSE IF t.k = "uuid"
        THEN IF s = <<>> THEN Skip
             ELSE IF ~FromString(s).ok THEN Fail("parse uuid")
             ELSE Push(FromString(s).v)
        ELSE IF k = "string" THEN Push(s)
        ELSE IF k = "slice"
        THEN [err |-> Err("matrix type is not supported", sf.Name), out |-> out]
        ELSE Push(Zero(t))

\* setSliceField: [err, v], v the value of the field afterwards
setSliceField(ctx, name, sf, field) ==
  LET raw == CtxStringSlice(ctx, name)
  IN  IF Len(raw) = 0 THEN [err |-> NoErr, v |-> field]
      ELSE LET r == sliceLoop(sf, raw, 1, <<>>)
           IN  IF r.err # NoErr THEN [err |-> r.err, v |-> field]
               ELSE [err |-> NoErr, v |-> [isnil |-> FALSE, elems |-> r.out]]

\* setFieldValue: [err, v, acc], v the value of field afterwards and acc the
\* typed accessor of the command that read the flag
setFieldValue(ctx, name, sf, field) ==
  LET t  == unreferenceType(sf.Type)
      k  == Kind(t)
      s  == CtxString(ctx, name)
      Ok(v, acc) == [err |-> NoErr, v |-> v, acc |-> acc]
      Fail(msg)  == [err |-> Err(msg, <<>>), v |-> field, acc |-> "String"]
  IN  IF t.k = "duration"
      THEN IF s = <<>> THEN Ok(0, "String")
           ELSE IF ~ParseDuration(s).ok THEN Fail("parse duration")
           ELSE Ok(ParseDuration(s).v, "String")
      ELSE IF k = "bool" THEN Ok(CtxBool(ctx, name), "Bool")
      ELSE IF isAnyInt(k) THEN Ok(castAndSetInt(k, CtxInt64(ctx, name)), "Int64")
      ELSE IF isAnyUint(k) THEN Ok(castAndSetUint(k, CtxUint64(ctx, name)), "Uint64")
      ELSE IF isFloat(k) THEN Ok(CtxFloat64(ctx, name), "Float64")
      ELSE IF t.k = "time"
      THEN IF s = <<>> THEN Ok(ZeroTime, "String")
           ELSE IF ~ParseTime(timeLayoutOf(sf), s).ok THEN Fail("time parse")
           ELSE Ok(ParseTime(timeLayoutOf(sf), s).v, "String")
      ELSE IF t.k = "uuid"
      THEN IF s = <<>> THEN Ok(NilUUID, "String")
           ELSE IF ~FromString(s).ok THEN Fail("parse uuid")
           ELSE Ok(FromString(s).v, "String")
      ELSE IF k = "string" THEN Ok(s, "String")
      ELSE IF k = "slice"
      THEN [err |-> setSliceField(ctx, name, sf, field).err,
            v   |-> setSliceField(ctx, name, sf, field).v,
            acc |-> "StringSlice"]
      ELSE Ok(field, "none")

\* unreferenceValue(fv) of a field of the freshly allocated struct: a pointer
\* field is nil there, so the value handed to setFieldValue is a new one that
\* is not the field; only a field that is no pointer is written through
writesThrough(sf) == Kind(sf.Type) # "ptr"

\* reflect's Value.Set panics unless the value is assignable to the target;
\* from is a struct type here
assignable(from, to) == Kind(to) = "struct" /\ from = to

\* the condition of bindStruct under which a leaf field is passed over
skipField(ctx, name, omitEmpty) == ~IsSet(ctx, name) /\ omitEmpty

\* the prefix bindStruct descends into a nested struct with
bindPrefix(sf, prefix) == IF ~sf.Anonymous THEN prefix \o sf.cliPrefix ELSE prefix

\* What bindStruct did, as a sequence of events in the order of the traversal.
\* For a leaf field: [kind |-> "leaf", sf, path, name, read, acc], name the
\* flag name asked of the command, read whether the flag was read (FALSE: the
\* field was passed over), acc the typed accessor.  For a nested struct:
\* [kind |-> "nested", sf, path, assigned, stored], assigned whether the
\* recursive call returned a value, stored whether the Set of that value
\* into the field went through.  path is the sequence of field indices from
\* the bound struct down to the field.
LeafEvent(sf, path, name, read, acc) ==
  [kind |-> "leaf", sf |-> sf, path |-> path, name |-> name, read |-> read, acc |-> acc]

NestedEvent(sf, path, assigned, stored) ==
  [kind |-> "nested", sf |-> sf, path |-> path, assigned |-> assigned, stored |-> stored]

Panic(msg, trace) ==
  [outcome |-> "panic", err |-> Err(msg, <<>>), vp |-> <<>>, trace |-> trace]

Failed(err, trace) == [outcome |-> "err", err |-> err, vp |-> <<>>, trace |-> trace]

RECURSIVE bindStruct(_, _, _, _)
RECURSIVE bindFrom(_, _, _, _, _, _, _, _)

\* the loop of bindStruct from field i on, with the struct v built so far
\* and the defined flag: [outcome, err, vp, trace], vp the returned pointer
\* (<<>> for nil, <<v>> for &v).  path leads to the struct being bound.
bindFrom(ctx, t, prefix, path, i, v, defined, trace) ==
  IF i > Len(t.fields)
  THEN [outcome |-> "ok", err |-> NoErr, vp |-> IF defined THEN <<v>> ELSE <<>>,
        trace |-> trace]
  ELSE
    LET sf   == t.fields[i]
        p    == parseNamesWithOptions(sf.cli)
        name == prefix \o (IF p.name = <<>> THEN ToLower(sf.Name) ELSE p.name)
        here == Append(path, i)
    IN  IF ~sf.Exported THEN bindFrom(ctx, t, prefix, path, i + 1, v, defined, trace)
        ELSE IF isStructLike(sf.Type)
        THEN
          IF sf.Anonymous /\ sf.cli # <<>>
          THEN Failed(Err("embedded struct has cli tag, but unsupported", sf.Name), trace)
          ELSE
            LET sub == bindStruct(ctx, sf.Type, bindPrefix(sf, prefix), here)
                tr  == trace \o sub.trace
            IN  IF sub.outcome = "panic" THEN [sub EXCEPT !.trace = tr]
                ELSE IF sub.outcome = "err"
                THEN Failed(Wrap("bind substruct", sf.Name, sub.err), tr)
                ELSE IF sub.vp = <<>>
                THEN bindFrom(ctx, t, prefix, path, i + 1, v, defined,
                              Append(tr, NestedEvent(sf, here, FALSE, FALSE)))
                ELSE IF ~assignable(unreferenceType(sf.Type), sf.Type)
                THEN Panic("reflect.Set: value is not assignable to the field",
                           Append(tr, NestedEvent(sf, here, TRUE, FALSE)))
                ELSE bindFrom(ctx, t, prefix, path, i + 1, [v EXCEPT ![i] = sub.vp[1]], TRUE,
                              Append(tr, NestedEvent(sf, here, TRUE, TRUE)))
        ELSE IF skipField(ctx, name, p.omitEmpty)
        THEN bindFrom(ctx, t, prefix, path, i + 1, v, defined,
                      Append(trace, LeafEvent(sf, here, name, FALSE, "none")))
        ELSE
          LET r  == setFieldValue(ctx, name, sf, Zero(unreferenceType(sf.Type)))
              tr == Append(trace, LeafEvent(sf, here, name, TRUE, r.acc))
          IN  IF r.err # NoErr THEN Failed(Wrap("set field", sf.Name, r.err), tr)
              ELSE bindFrom(ctx, t, prefix, path, i + 1,
                            IF writesThrough(sf) THEN [v EXCEPT ![i] = r.v] ELSE v,
                            TRUE, tr)

\* a bindStruct that returns the struct it allocated even when it set no field
bindStructAlwaysDefined(ctx, t0, prefix, path) ==
  LET t == unreferenceType(t0)
  IN  IF Kind(t) # "struct" THEN Panic("reflect: NumField of non-struct type", <<>>)
      ELSE IF t.k = "time"
      THEN [outcome |-> "ok", err |-> NoErr, vp |-> <<>>, trace |-> <<>>]
      ELSE bindFrom(ctx, t, prefix, path, 1, Zero(t), TRUE, <<>>)

bindStruct(ctx, t0, prefix, path) ==
  LET t == unreferenceType(t0)
  IN  IF Kind(t) # "struct" THEN Panic("reflect: NumField of non-struct type", <<>>)
      ELSE IF t.k = "time"
      THEN [outcome |-> "ok", err |-> NoErr, vp |-> <<>>, trace |-> <<>>]
      ELSE bindFrom(ctx, t, prefix, path, 1, Zero(t), FALSE, <<>>)

\* the end of Bind, once bindStruct came back with r: the struct it returned,
\* if any, is Set into what the destination points to
setDest(d, dest, r) ==
  IF r.outcome # "ok"
  THEN [outcome |-> r.outcome, err |-> r.err, dest |-> dest, assigned |-> FALSE,
        trace |-> r.trace]
  ELSE IF r.vp = <<>>
  THEN [outcome |-> "ok", err |-> NoErr, dest |-> dest, assigned |-> FALSE,
        trace |-> r.trace]
  ELSE IF ~assignable(unreferenceType(d.type), d.type.elem)
  THEN [outcome  |-> "panic",
        err      |-> Err("reflect.Set: value is not assignable to the destination", <<>>),
        dest     |-> dest,
        assigned |-> FALSE,
        trace    |-> r.trace]
  ELSE [outcome |-> "ok", err |-> NoErr, dest |-> r.vp[1], assigned |-> TRUE,
        trace |-> r.trace]

\* Bind.  The destination d is [type, isnil]: the Go type of the argument
\* and whether it is a nil pointer; dest is the struct the pointers lead to.
\* Bind: [outcome, err, dest, assigned, trace], dest the struct afterwards
\* and assigned whether the destination was written
Bind(ctx, d, dest) ==
  IF Kind(d.type) # "ptr" \/ d.isnil
  THEN [outcome  |-> "err",
        err      |-> Err("Bind: dest must be a non-nil pointer to a struct", <<>>),
        dest     |-> dest,
        assigned |-> FALSE,
        trace    |-> <<>>]
  ELSE setDest(d, dest, bindStruct(ctx, unreferenceType(d.type), <<>>, <<>>))

\* ------------------------------------------------------------------------
\* The struct types of the model
\* ------------------------------------------------------------------------

MaxFields == 2

MaxSubFields == 2

MaxElems == 2

Field(name, type, cli, def) ==
  [Name |-> name, Exported |-> TRUE, Anonymous |-> FALSE, Type |-> type, cli |-> cli,
   cliPrefix |-> <<>>, cliDefault |-> def, cliTimeLayout |-> <<>>]

\* the leaf fields a top-level struct is made of, in declaration order
TopLeaves ==
  << Field(<<"N","a","m","e">>, T("string"), <<"n","a","m","e",",","n">>, <<"g","u","e","s","t">>),
     Field(<<"C","o","u","n","t">>, T("int8"), <<"c","o","u","n","t">>, <<>>),
     Field(<<"P","o","r","t">>, T("uint16"), <<"p","o","r","t",",","o","m","i","t","e","m","p","t","y">>, <<>>),
     Field(<<"V","e","r","b","o","s","e">>, T("bool"), <<"v","e","r","b","o","s","e",",","v",",","o","m","i","t","e","m","p","t","y">>, <<>>),
     Field(<<"D","e","l","a","y">>, T("duration"), <<"d","e","l","a","y",","," ","o","m","i","t","e","m","p","t","y">>, <<>>),
     [Field(<<"W","h","e","n">>, T("time"), <<"w","h","e","n",",","o","m","i","t","e","m","p","t","y">>, <<>>) EXCEPT !.cliTimeLayout = DateLayout],
     Field(<<"I","D">>, T("uuid"), <<",","o","m","i","t","e","m","p","t","y">>, <<>>),
     Field(<<"N","u","m","s">>, SliceOf(T("int8")), <<"n","u","m","s",",","o","m","i","t","e","m","p","t","y">>, <<>>) >>

\* further leaf fields, bound as the only field of a struct
OtherLeaves ==
  << Field(<<"T","a","g","s">>, SliceOf(T("string")), <<"t","a","g","s",",","o","m","i","t","e","m","p","t","y">>, <<"a","l","p","h","a",","," ","b","e","t","a">>),
     Field(<<"B","i","t","s">>, SliceOf(T("bool")), <<"b","i","t","s">>, <<>>),
     Field(<<"W","a","i","t","s">>, SliceOf(T("duration")), <<"w","a","i","t","s",",","o","m","i","t","e","m","p","t","y">>, <<>>),
     Field(<<"M">>, SliceOf(SliceOf(T("string"))), <<"m">>, <<>>),
     Field(<<"W","a","i","t">>, PtrTo(T("duration")), <<"w","a","i","t",",","o","m","i","t","e","m","p","t","y">>, <<>>),
     Field(<<"A","t">>, PtrTo(T("time")), <<"a","t">>, <<>>),
     Field(<<"R","e","f">>, PtrTo(T("uuid")), <<>>, <<>>),
     Field(<<"N">>, PtrTo(T("int")), <<"n",",","o","m","i","t","e","m","p","t","y">>, <<"3">>),
     [Field(<<"s","e","c","r","e","t">>, T("string"), <<"s","e","c","r","e","t">>, <<>>) EXCEPT !.Exported = FALSE],
     Field(<<"R","a","t","i","o">>, T("float64"), <<"r","a","t","i","o">>, <<"2">>) >>

\* the leaf fields a nested struct is made of
SubLeaves ==
  << Field(<<"H","o","s","t">>, T("string"), <<"h","o","s","t",",","h",",","o","m","i","t","e","m","p","t","y">>, <<>>),
     Field(<<"S","i","z","e">>, T("int16"), <<"s","i","z","e">>, <<>>),
     Field(<<"T","t","l">>, T("duration"), <<"t","t","l",",","o","m","i","t","e","m","p","t","y">>, <<>>) >>

\* the sequences of at most n elements of seq, in the order of seq
RECURSIVE SubSeqsOf(_, _)
SubSeqsOf(seq, n) ==
  IF seq = <<>> \/ n = 0 THEN {<<>>}
  ELSE SubSeqsOf(Tail(seq), n)
         \cup { <<Head(seq)>> \o r : r \in SubSeqsOf(Tail(seq), n - 1) }

FlatTypes ==
  { StructOf(fs) : fs \in SubSeqsOf(TopLeaves, MaxFields) \ {<<>>} }
    \cup { StructOf(<<OtherLeaves[i]>>) : i \in 1..Len(OtherLeaves) }

SubTypes == { StructOf(fs) : fs \in SubSeqsOf(SubLeaves, MaxSubFields) \ {<<>>} }

DbPrefix == <<"d","b",".">>

\* the ways a struct is nested in a field: named or embedded, by value or by
\* pointer, with or without cliPrefix, and embedded with a cli tag
Nestings(sub) ==
  LET F(name, type, anon, cli, pfx) ==
        [Name |-> name, Exported |-> TRUE, Anonymous |-> anon, Type |-> type,
         cli |-> cli, cliPrefix |-> pfx, cliDefault |-> <<>>, cliTimeLayout |-> <<>>]
  IN  { F(<<"D","B">>, sub, FALSE, <<>>, DbPrefix),
        F(<<"D","B">>, sub, FALSE, <<>>, <<>>),
        F(<<"S","u","b">>, sub, TRUE, <<>>, <<>>),
        F(<<"S","u","b">>, sub, TRUE, <<>>, DbPrefix),
        F(<<"S","u","b">>, sub, TRUE, <<"s","u","b">>, <<>>),
        F(<<"D","B">>, PtrTo(sub), FALSE, <<>>, DbPrefix),
        F(<<"S","u","b">>, PtrTo(sub), TRUE, <<>>, <<>>) }

Siblings == { TopLeaves[1], TopLeaves[4] }

NestedTypes ==
  UNION { { StructOf(<<n>>) } \cup
          { StructOf(<<l, n>>) : l \in Siblings } \cup
          { StructOf(<<n, l>>) : l \in Siblings }
          : n \in UNION { Nestings(sub) : sub \in SubTypes } }

\* two levels of nesting
DeepTypes ==
  { StructOf(<<outer>>) :
      outer \in UNION { Nestings(StructOf(<<inner>>)) :
                          inner \in UNION { Nestings(StructOf(<<l>>)) :
                                              l \in {SubLeaves[1], SubLeaves[2]} } } }

Types == FlatTypes \cup NestedTypes \cup DeepTypes

\* ------------------------------------------------------------------------
\* The inputs of the model
\* ------------------------------------------------------------------------

SomeUUID == <<"b","3","3","a","0","0","0","0","-","0","0","0","0","-","4","0","0","0","-","8","0","0","0","-","0","0","0","0","0","0","0","0","0","0","0","A">>

StringInputs == { <<"1","h">>, <<"x">>, <<"2","0","2","5","-","0","1","-","0","2">>, SomeUUID, <<>> }

Int64Inputs == { 7, 300, -1 }

Uint64Inputs == { 7, 70000 }

Float64Inputs == { 5 }

SliceElems == { <<"1">>, <<"x">>, <<>> }

RECURSIVE SeqsUpTo(_, _)
SeqsUpTo(S, n) ==
  IF n = 0 THEN {<<>>}
  ELSE SeqsUpTo(S, n - 1) \cup { Append(q, e) : q \in SeqsUpTo(S, n - 1), e \in S }

\* the values the library can hold for a flag of a kind once it was given
InputsOf(kind) ==
  IF kind = "String" THEN StringInputs
  ELSE IF kind = "Bool" THEN BOOLEAN
  ELSE IF kind = "Int64" THEN Int64Inputs
  ELSE IF kind = "Uint64" THEN Uint64Inputs
  ELSE IF kind = "Float64" THEN Float64Inputs
  ELSE SeqsUpTo(SliceElems, MaxElems) \ {<<>>}

\* a value that is not the zero value, for a destination the caller filled
RECURSIVE Preset(_)
Preset(t) ==
  IF t.k = "struct" THEN [i \in 1..Len(t.fields) |-> Preset(t.fields[i].Type)]
  ELSE IF t.k = "ptr" THEN <<Preset(t.elem)>>
  ELSE IF t.k = "slice" THEN [isnil |-> FALSE, elems |-> <<Preset(t.elem)>>]
  ELSE IF t.k = "bool" THEN TRUE
  ELSE IF t.k = "string" THEN <<"o","l","d">>
  ELSE IF t.k = "time" THEN [ZeroTime EXCEPT !.y = 1999]
  ELSE IF t.k = "uuid" THEN [NilUUID EXCEPT ![32] = "f"]
  ELSE 9

\* the destinations a caller can hand to Bind for the struct type t: a
\* pointer to the struct, the struct by value, a nil pointer, a pointer to an
\* int, a pointer to a pointer to the struct
Destinations(t) ==
  { [type |-> PtrTo(t), isnil |-> FALSE],
    [type |-> t, isnil |-> FALSE],
    [type |-> PtrTo(t), isnil |-> TRUE],
    [type |-> PtrTo(T("int")), isnil |-> FALSE],
    [type |-> PtrTo(PtrTo(t)), isnil |-> FALSE] }

\* the results a user handler can return
HandlerResults == { NoErr, Err("handler failed", <<>>) }

\* ------------------------------------------------------------------------
\* The state machine
\* ------------------------------------------------------------------------

VARIABLES
  typ,      \* the struct type the application binds
  cmd,      \* the cli.Command: [Name, Action]; Action is "none" or the type
            \* parameter of the WithBinding action installed: "T" (the
            \* struct), "*T" or "int"
  ctx,      \* the flags of the command with their values
  dest,     \* the struct value the caller of Bind owns
  pc,       \* "start", "parsing", "handler", "returning" or "done"
  last,     \* the last call of Bind: [called, d, outcome, err, before,
            \* assigned, trace]
  calls,    \* how often the user handler was invoked
  arg,      \* the value the handler was invoked with (<<>>: never invoked)
  hres,     \* what the handler came back with (<<>>: it has not)
  ret       \* what the action returned: [returned, err]

vars == <<typ, cmd, ctx, dest, pc, last, calls, arg, hres, ret>>

NoCall == [called |-> FALSE]

Init ==
  /\ typ \in Types
  /\ cmd = [Name |-> <<>>, Action |-> "none"]
  /\ ctx = <<>>
  /\ dest = Zero(typ)
  /\ pc = "start"
  /\ last = NoCall
  /\ calls = 0
  /\ arg = <<>>
  /\ hres = <<>>
  /\ ret = [returned |-> FALSE]

\* the caller fills its destination before it binds
Prefill ==
  /\ pc = "start"
  /\ cmd.Action = "none"
  /\ dest = Zero(typ)
  /\ dest' = Preset(typ)
  /\ UNCHANGED <<typ, cmd, ctx, pc, last, calls, arg, hres, ret>>

\* CommandWithBinding[T](base, name, fn): the action becomes WithBinding(fn),
\* the name becomes name
CommandWithBinding(tparam, name) ==
  /\ pc = "start"
  /\ cmd.Action = "none"
  /\ dest = Zero(typ)
  /\ cmd' = [Name |-> name, Action |-> tparam]
  /\ UNCHANGED <<typ, ctx, dest, pc, last, calls, arg, hres, ret>>

\* the application builds its flags with FlagsFromStruct and hands them to
\* the library; no flag is given yet
Generate ==
  /\ pc = "start"
  /\ LET fl == FlagsFromStruct(typ)
     IN  ctx' = [i \in 1..Len(fl) |->
                   [Name |-> fl[i].Name, Aliases |-> fl[i].Aliases, kind |-> fl[i].kind,
                    Value |-> fl[i].Value, Required |-> fl[i].Required,
                    Origin |-> fl[i].Origin, isSet |-> FALSE]]
  /\ pc' = "parsing"
  /\ UNCHANGED <<typ, cmd, dest, last, calls, arg, hres, ret>>

\* the library reads one flag off the command line
Supply(i, val) ==
  /\ pc = "parsing"
  /\ ~ctx[i].isSet
  /\ ctx' = [ctx EXCEPT ![i].Value = val, ![i].isSet = TRUE]
  /\ UNCHANGED <<typ, cmd, dest, pc, last, calls, arg, hres, ret>>

\* the record of a call of Bind with destination d that came back with r
Returned(d, before, r) ==
  [called |-> TRUE, d |-> d, outcome |-> r.outcome, err |-> r.err, before |-> before,
   assigned |-> r.assigned, trace |-> r.trace]

\* what the caller of Bind(c, d) is left with when Bind came back with r
callerSees(d, r) ==
  /\ dest' = r.dest
  /\ last' = Returned(d, dest, r)

\* the application calls Bind(c, d) itself
BindCall(d) ==
  /\ pc = "parsing"
  /\ cmd.Action = "none"
  /\ callerSees(d, Bind(ctx, d, dest))
  /\ pc' = "done"
  /\ UNCHANGED <<typ, cmd, ctx, calls, arg, hres, ret>>

\* the type T of WithBinding[T]
ParamType(tparam) ==
  IF tparam = "T" THEN typ ELSE IF tparam = "*T" THEN PtrTo(typ) ELSE T("int")

\* &t of the action WithBinding returns, t a variable of type T
AddressOfT == [type |-> PtrTo(ParamType(cmd.Action)), isnil |-> FALSE]

\* an action that goes on to the handler whether or not Bind returned an error
afterBindIgnoringError(d, r) ==
  /\ last' = Returned(d, Zero(typ), r)
  /\ IF r.outcome # "panic"
     THEN /\ pc' = "handler"
          /\ arg' = << IF cmd.Action = "T" THEN r.dest ELSE Zero(ParamType(cmd.Action)) >>
          /\ ret' = ret
     ELSE /\ pc' = "done"
          /\ arg' = arg
          /\ ret' = ret

\* the action WithBinding returns, after Bind(c, &t) came back with r: the
\* wrapped error is returned when Bind failed, the handler is next otherwise
afterBind(d, r) ==
  /\ last' = Returned(d, Zero(typ), r)
  /\ IF r.outcome = "ok"
     THEN /\ pc' = "handler"
          /\ arg' = << IF cmd.Action = "T" THEN r.dest ELSE Zero(ParamType(cmd.Action)) >>
          /\ ret' = ret
     ELSE /\ pc' = "done"
          /\ arg' = arg
          /\ ret' = IF r.outcome = "err"
                    THEN [returned |-> TRUE, err |-> Wrap("bind flags", <<>>, r.err)]
                    ELSE ret

\* the action WithBinding returns, up to the call of the handler: var t T,
\* Bind(c, &t), and the return of the wrapped error when Bind fails
ActionBind ==
  /\ pc = "parsing"
  /\ cmd.Action # "none"
  /\ afterBind(AddressOfT, Bind(ctx, AddressOfT, Zero(typ)))
  /\ UNCHANGED <<typ, cmd, ctx, dest, calls, hres>>

\* the action WithBinding returns, at the call fn(ctx, t): the handler runs
\* and comes back with its result
ActionInvoke(result) ==
  /\ pc = "handler"
  /\ calls' = calls + 1
  /\ hres' = <<result>>
  /\ pc' = "returning"
  /\ UNCHANGED <<typ, cmd, ctx, dest, last, arg, ret>>

\* the action WithBinding returns, at its last statement: return fn(ctx, t)
ActionReturn ==
  /\ pc = "returning"
  /\ ret' = [returned |-> TRUE, err |-> hres[1]]
  /\ pc' = "done"
  /\ UNCHANGED <<typ, cmd, ctx, dest, last, calls, arg, hres>>

Next ==
  \/ Prefill
  \/ \E tparam \in {"T", "*T", "int"} : CommandWithBinding(tparam, <<"s","e","r","v","e">>)
  \/ Generate
  \/ \E i \in 1..Len(ctx) : \E val \in InputsOf(ctx[i].kind) : Supply(i, val)
  \/ \E d \in Destinations(typ) : BindCall(d)
  \/ ActionBind
  \/ \E result \in HandlerResults : ActionInvoke(result)
  \/ ActionReturn

Spec == Init /\ [][Next]_vars

\* ------------------------------------------------------------------------
\* Properties
\* ------------------------------------------------------------------------

\* the destination of the last call of Bind was a non-nil pointer to the struct
ValidDest == last.d = [type |-> PtrTo(typ), isnil |-> FALSE]

\* the last call of Bind was the application's own, on its struct dest, with
\* a non-nil pointer to it
ProperCall == last.called /\ cmd.Action = "none" /\ ValidDest

Events == IF last.called THEN { last.trace[n] : n \in 1..Len(last.trace) } ELSE {}

LeafEvents == { e \in Events : e.kind = "leaf" }

NestedEvents == { e \in Events : e.kind = "nested" }

FlagIndexes == 1..Len(ctx)

\* the value at a path of field indices in a struct value; a nil pointer on
\* the way has no fields, which is told by [there |-> FALSE]
RECURSIVE LeafTypeAt(_, _)
LeafTypeAt(t, path) ==
  IF t.k = "ptr" THEN LeafTypeAt(t.elem, path)
  ELSE IF path = <<>> THEN t
  ELSE LeafTypeAt(t.fields[Head(path)].Type, Tail(path))

RECURSIVE ValueAt(_, _, _)
ValueAt(v, t, path) ==
  IF t.k = "ptr"
  THEN IF v = NilPtr THEN [there |-> FALSE, t |-> LeafTypeAt(t, path)]
       ELSE ValueAt(v[1], t.elem, path)
  ELSE IF path = <<>> THEN [there |-> TRUE, v |-> v, t |-> t]
  ELSE ValueAt(v[Head(path)], t.fields[Head(path)].Type, Tail(path))

\* C1: the flag name under which Bind looks a leaf field up is the name
\* FlagsFromStruct emits for that same field, whatever the nesting: every
\* leaf field Bind asked the command about was asked under the name of the
\* flag generated for it.
C1_SameNames ==
  ProperCall =>
     \A e \in LeafEvents : \A j \in FlagIndexes :
        ctx[j].Origin = e.sf => ctx[j].Name = e.name

\* the cli tag carries the omitempty marker: one of its comma-separated
\* tokens after the first is omitempty
CarriesOmitEmpty(tag) ==
  LET parts == SplitComma(tag, <<>>)
  IN  \E n \in 2..Len(parts) : TrimSpace(parts[n]) = OmitEmptyToken

\* C2: every generated flag is required if and only if its field has an empty
\* cliDefault and its cli tag does not carry the omitempty marker, whatever
\* the form of the tag.
C2_RequiredIffNoDefaultNoOmitEmpty ==
  \A j \in FlagIndexes :
     ctx[j].Required <=>
       (ctx[j].Origin.cliDefault = <<>> /\ ~CarriesOmitEmpty(ctx[j].Origin.cli))

\* C3: Bind returns an error, and writes nothing, for every destination that
\* is not a non-nil pointer to a struct.
C3_InvalidDestinationIsAnError ==
  (last.called /\ ~ValidDest) => (last.outcome = "err" /\ dest = last.before)

ScalarKinds == {"bool", "string", "duration", "time", "uuid"} \cup IntTypes \cup UintTypes

ScalarOnly(t) ==
  \A i \in 1..Len(t.fields) : t.fields[i].Exported /\ t.fields[i].Type.k \in ScalarKinds

\* the text given for a flag is a value of the field's kind
ValidText(sf, val) ==
  IF sf.Type.k = "duration" THEN ParseDuration(val).ok
  ELSE IF sf.Type.k = "time" THEN ParseTime(timeLayoutOf(sf), val).ok
  ELSE IF sf.Type.k = "uuid" THEN FromString(val).ok
  ELSE TRUE

\* the field holds the value that was given for its flag
HoldsSupplied(sf, fv, val) ==
  IF sf.Type.k = "duration" THEN fv = ParseDuration(val).v
  ELSE IF sf.Type.k = "time" THEN fv = ParseTime(timeLayoutOf(sf), val).v
  ELSE IF sf.Type.k = "uuid" THEN fv = FromString(val).v
  ELSE fv = val

\* C4: round trip of a struct of scalar fields: when every generated flag was
\* given a value of its kind, Bind goes through and every field equals the
\* value given for its flag, narrow integers included.
C4_ScalarRoundTrip ==
  ( /\ ProperCall
    /\ ScalarOnly(typ)
    /\ \A j \in FlagIndexes : ctx[j].isSet /\ ValidText(ctx[j].Origin, ctx[j].Value) )
  => /\ last.outcome = "ok"
     /\ \A i \in 1..Len(typ.fields) :
          \E j \in FlagIndexes :
             /\ ctx[j].Origin = typ.fields[i]
             /\ HoldsSupplied(typ.fields[i], dest[i], ctx[j].Value)

\* the value Bind reads for a leaf field does not parse as the field's kind:
\* a duration, timestamp or identifier text, or an element of a sequence of
\* integers, floats, durations, timestamps or identifiers
BadText(t, sf, val) ==
  IF val = <<>> THEN FALSE
  ELSE IF t.k = "duration" THEN ~ParseDuration(val).ok
  ELSE IF t.k = "time" THEN ~ParseTime(timeLayoutOf(sf), val).ok
  ELSE IF t.k = "uuid" THEN ~FromString(val).ok
  ELSE FALSE

BadElement(t, sf, val) ==
  IF t.k \in IntTypes THEN ~ParseInt(val).ok
  ELSE IF t.k \in UintTypes THEN ~ParseUint(val).ok
  ELSE IF t.k \in {"float32", "float64"} THEN ~ParseFloat(val).ok
  ELSE BadText(t, sf, val)

\* the value the command holds under a name, whatever its kind
HeldUnder(name) == ctx[lookupFlag(ctx, name)]

FailsToParse(e) ==
  LET t == unreferenceType(e.sf.Type)
  IN  /\ e.read
      /\ lookupFlag(ctx, e.name) # 0
      /\ IF t.k = "slice"
         THEN /\ HeldUnder(e.name).kind = "StringSlice"
              /\ t.elem.k # "slice"
              /\ \E n \in 1..Len(HeldUnder(e.name).Value) :
                    /\ BadElement(t.elem, e.sf, HeldUnder(e.name).Value[n])
                    /\ \A m \in 1..(n - 1) :
                          ~BadElement(t.elem, e.sf, HeldUnder(e.name).Value[m])
         ELSE /\ HeldUnder(e.name).kind = "String"
              /\ BadText(t, e.sf, HeldUnder(e.name).Value)

\* the error names the field: it is the field of the innermost "set field"
ErrNames(err, fieldName) ==
  \E n \in 1..Len(err) : err[n].msg = "set field" /\ err[n].name = fieldName

\* the leaf fields before e in the traversal that were read
ReadBefore(e) ==
  { f \in LeafEvents : f.read /\ \E m, n \in 1..Len(last.trace) :
       m < n /\ last.trace[m] = f /\ last.trace[n] = e }

\* what setFieldValue stores for the leaf field of event f
StoredFor(f) == setFieldValue(ctx, f.name, f.sf, Zero(unreferenceType(f.sf.Type))).v

\* the field at the path holds val; a field behind a nil pointer holds
\* nothing but a zero value
HoldsAt(v, path, val) ==
  LET r == ValueAt(v, typ, path)
  IN  IF r.there THEN r.v = val ELSE val = Zero(r.t)

ZeroAt(v, path) ==
  LET r == ValueAt(v, typ, path) IN r.there => r.v = Zero(r.t)

IsMatrix(sf) == sf.Type.k = "slice" /\ sf.Type.elem.k = "slice"

\* C6: a struct with a sequence-of-sequence field always fails:
\* FlagsFromStruct produces no flag for the field, and Bind returns an
\* unsupported-type error for it whatever the command holds.
C6_MatrixAlwaysFails ==
  /\ \A j \in FlagIndexes : ~IsMatrix(ctx[j].Origin)
  /\ (ProperCall /\ \E i \in 1..Len(typ.fields) : IsMatrix(typ.fields[i]))
       => /\ last.outcome = "err"
          /\ \E n \in 1..Len(last.err) : last.err[n].msg = "matrix type is not supported"

\* a leaf field marked omitempty whose flag was not given
OmitEmptyUnset(e) == CarriesOmitEmpty(e.sf.cli) /\ ~IsSet(ctx, e.name)

AnyRead == \E e \in LeafEvents : e.read

C8_FlagKindIsAccessorKind ==
  ProperCall =>
    \A e \in LeafEvents : \A j \in FlagIndexes :
       (e.read /\ ctx[j].Origin = e.sf) => ctx[j].kind = e.acc

\* C9: the action of WithBinding binds a fresh zero value, then invokes the
\* handler exactly once with the bound value if and only if Bind returned no
\* error; a failed Bind is returned wrapped and the handler is not invoked; a
\* Bind that went through makes the action return the handler's result.
C9_BindThenHandler ==
  /\ calls <= 1
  /\ (calls = 1) =>
        /\ cmd.Action # "none"
        /\ last.called
        /\ last.outcome = "ok"
        /\ last.before = Zero(typ)
        /\ arg = << IF cmd.Action = "T" THEN Bind(ctx, last.d, Zero(typ)).dest
                    ELSE Zero(ParamType(cmd.Action)) >>
  /\ (pc = "handler") => (calls = 0 /\ last.called /\ last.outcome = "ok")
  /\ (pc = "returning") => calls = 1
  /\ ret.returned => (pc = "done" /\ last.called)
  /\ (pc = "done" /\ cmd.Action # "none") =>
        /\ (calls = 1) <=> (last.outcome = "ok")
        /\ (last.outcome = "ok") => (ret.returned /\ ret.err = hres[1])
        /\ (last.outcome = "err") =>
              /\ ret.returned
              /\ ret.err # NoErr
              /\ Tail(ret.err) = last.err
        /\ (last.outcome = "panic") => ~ret.returned

\* the handler was invoked with a bound value that is not the zero value and
\* the action returned the handler's error
C9_Witness ==
  /\ pc = "done"
  /\ cmd.Action = "T"
  /\ calls = 1
  /\ arg # <<Zero(typ)>>
  /\ ret.returned
  /\ ret.err = Err("handler failed", <<>>)

\* C10: for every nested struct field Bind reaches: when the recursive bind
\* assigned nothing the field stays at its zero value and does not count as
\* an assignment; when it assigned something the nested value is stored in
\* the field without error, for value-typed and pointer-typed fields alike.
C10_NestedStoredWhenAssigned ==
  ProperCall =>
    /\ \A e \in NestedEvents :
          /\ e.assigned => e.stored
          /\ (~e.assigned /\ last.outcome = "ok" /\ last.assigned) => ZeroAt(dest, e.path)
    /\ (\A e \in Events : IF e.kind = "nested" THEN ~e.assigned ELSE ~e.read)
          => ~last.assigned

\* the scalar parse rule for an element of type t: [ok, v]; the empty text
\* is the zero value of a duration, a timestamp and an identifier, a text
\* that is no boolean is no value of a bool
ElementParse(t, sf, s) ==
  IF t.k = "duration"
  THEN IF s = <<>> THEN [ok |-> TRUE, v |-> 0] ELSE ParseDuration(s)
  ELSE IF t.k = "time"
  THEN IF s = <<>> THEN [ok |-> TRUE, v |-> ZeroTime] ELSE ParseTime(timeLayoutOf(sf), s)
  ELSE IF t.k = "uuid"
  THEN IF s = <<>> THEN [ok |-> TRUE, v |-> NilUUID] ELSE FromString(s)
  ELSE IF t.k = "bool" THEN ParseBool(s)
  ELSE IF t.k \in IntTypes THEN ParseInt(s)
  ELSE IF t.k \in UintTypes THEN ParseUint(s)
  ELSE IF t.k \in {"float32", "float64"} THEN ParseFloat(s)
  ELSE [ok |-> TRUE, v |-> s]

\* the leaf events of the last Bind that read a flag of texts into a field
\* that is a sequence of scalars
SliceReads ==
  { e \in LeafEvents :
      /\ e.read
      /\ e.sf.Type.k = "slice"
      /\ e.sf.Type.elem.k # "slice"
      /\ lookupFlag(ctx, e.name) # 0
      /\ HeldUnder(e.name).kind = "StringSlice"
      /\ Len(HeldUnder(e.name).Value) > 0 }

\* the sequence the texts raw stand for, element by element
ElementWise(t, sf, raw) ==
  [isnil |-> FALSE, elems |-> [n \in 1..Len(raw) |-> ElementParse(t, sf, raw[n]).v]]

\* C11: Bind maps the texts of a flag onto a sequence field element by
\* element: when one of the texts is no value of the element type Bind
\* returns an error, and when Bind returns no error the field holds exactly
\* one element per text, in the order of the texts, each the value its text
\* stands for (the zero value for the empty text of a duration, a
\* timestamp or an identifier).
C11_SliceElementByElement ==
  ProperCall =>
    \A e \in SliceReads :
       /\ (\E n \in 1..Len(HeldUnder(e.name).Value) :
              ~ElementParse(e.sf.Type.elem, e.sf, HeldUnder(e.name).Value[n]).ok)
             => last.outcome = "err"
       /\ last.outcome = "ok"
             => HoldsAt(dest, e.path,
                        ElementWise(e.sf.Type.elem, e.sf, HeldUnder(e.name).Value))

====
